---- MODULE Spec2Model ----
(***************************************************************************)
(* Model of the FMOD JS API DOM side (src/src/domside/index.js):           *)
(* FMODManager (the host-facing layer: bank loading, deferred callbacks,   *)
(* update tick) and FMODWrapper (the tag-indexed event-instance registry). *)
(*                                                                         *)
(* JavaScript values are tagged records: Str(s) is a string (a sequence of *)
(* one-character strings), Num(n) a number, Null is null/undefined.        *)
(* Event names are TLA+ strings; NoName stands for a falsy name filter.    *)
(***************************************************************************)
EXTENDS Integers, Sequences, FiniteSets, TLC

\* ------------------------------------------------------------------ bounds
\* Largest instance id the registry hands out in a behaviour.
MaxId == 2
\* Largest number of promises returned by waitForEventStop in a behaviour.
MaxWaits == 2
\* Largest number of loadBank and unloadBank calls issued in a behaviour.
MaxCalls == 3
\* Largest number of functions waiting in the deferred-callback queue.
MaxQueue == 2
\* engine sample-data requests made through the sample-data handlers
MaxSampleCalls == 1
\* engine listener calls recorded
MaxListenerCalls == 2
\* errors the error counter and the error window count up to
MaxErrors == 12
\* the clock stops here
MaxTime == 280000
\* setSuspended calls that pass the time guard
MaxSuspendCalls == 3

\* ------------------------------------------------------------ JS values
Str(s) == [t |-> "str", v |-> s]
Num(n) == [t |-> "num", v |-> n]
Null == [t |-> "null", v |-> 0]

NoName == ""
\* the event paths callers use, and the ones the loaded banks define
Names == {"e1", "e2"}
KnownEvents == {"e1"}
NameFilters == Names \cup {NoName}

\* Tag strings callers pass: empty, whitespace only, one tag, one tag with
\* surrounding whitespace, two tags separated by a whitespace run.
TagStrings ==
  { <<>>, <<" ">>, <<" ", "a", " ">>, <<"a", " ", " ", "b">> }

IsWs(c) == c = " "

\* String.prototype.trim
RECURSIVE Trim(_)
Trim(s) ==
  IF s = <<>> THEN s
  ELSE IF IsWs(Head(s)) THEN Trim(Tail(s))
  ELSE IF IsWs(s[Len(s)]) THEN Trim(SubSeq(s, 1, Len(s) - 1))
  ELSE s

\* String.prototype.split(/\s+/): the pieces between maximal whitespace runs,
\* empty pieces at the ends included.
RECURSIVE SplitWs(_)
SplitWs(s) ==
  IF \A i \in 1..Len(s) : ~IsWs(s[i]) THEN <<s>>
  ELSE LET i == CHOOSE k \in 1..Len(s) :
                  IsWs(s[k]) /\ \A m \in 1..(k - 1) : ~IsWs(s[m])
           after == {k \in i..Len(s) : ~IsWs(s[k])}
           j == IF after = {} THEN Len(s) + 1
                ELSE CHOOSE k \in after : \A m \in after : k <= m
       IN <<SubSeq(s, 1, i - 1)>> \o SplitWs(SubSeq(s, j, Len(s)))

Range(q) == {q[i] : i \in 1..Len(q)}

\* tags.split(/\s+/).filter((t) => t.trim()) then t.trim() on each piece
SplitTags(s) == {Trim(p) : p \in {q \in Range(SplitWs(s)) : Trim(q) # <<>>}}

\* the tag set instantiateEvent builds from its tags argument
ParseTags(tags) ==
  IF tags.t = "str" /\ tags.v # <<>> THEN SplitTags(tags.v) ELSE {}

\* --------------------------------------------------------------- state
VARIABLES
  wrapper,            \* FMODManager.wrapper # null
  initialized,        \* FMODWrapper.initialized
  loaded,             \* FMODManager._loaded
  instances,          \* FMODWrapper.instances: id -> instance data
  tagIndex,           \* FMODWrapper.tagIndex: tag -> set of ids
  nextInstanceId,     \* FMODWrapper.nextInstanceId
  eventDescriptions,  \* FMODWrapper.eventDescriptions (cached names)
  engine,             \* the engine's view of every handle created
  waits,              \* promises returned by waitForEventStop
  bankConfigs,        \* FMODManager.bankConfigs: bank -> loaded, bankHandle
  wrapperBanks,       \* keys of FMODWrapper.banks
  calls,              \* the loadBank / unloadBank calls issued so far
  engineBanks,        \* the engine's loading state of every bank
  loadCalls,          \* load-bank-from-memory calls the engine received
  nextTickArray,      \* FMODManager.nextTickArray: the deferred functions
  tickLog,            \* the steps the last update tick took, in order
  sampleCalls,        \* sample-data requests the engine received
  parameterCalls,     \* handles the last setEventParameter called the engine on
  numListeners,       \* FMODManager._numListeners
  lastNb,             \* argument of the last setNbListeners call (1: none)
  listenerCalls,      \* listener calls the engine received, in order
  errorCount,         \* FMODManager._errorCount
  lastErrorTime,      \* FMODManager._lastErrorTime
  now,                \* Date.now()
  errorWindow,        \* times of the tracked errors of the last 60000 ms
  stabilityWarnings,  \* stability warnings emitted so far
  releasedTwice,      \* handles the engine was asked to release again
  lastSuspendTime,    \* FMODManager.lastSuspendTime
  suspendLog,         \* the setSuspended calls that passed the time guard
  preInit             \* the promise PreInit returned, and what it waits for

vars == <<wrapper, initialized, loaded, instances, tagIndex, nextInstanceId,
          eventDescriptions, engine, waits, bankConfigs, wrapperBanks, calls,
          engineBanks, loadCalls, nextTickArray, tickLog, sampleCalls,
          parameterCalls, numListeners, lastNb, listenerCalls, errorCount,
          lastErrorTime, now, errorWindow, stabilityWarnings,
          releasedTwice, lastSuspendTime, suspendLog, preInit>>

bankVars == <<bankConfigs, wrapperBanks, calls, engineBanks, loadCalls>>

regVars == <<instances, tagIndex, nextInstanceId, eventDescriptions, engine>>
sysVars == <<wrapper, initialized, loaded>>
tickVars == <<nextTickArray, tickLog>>
listenerVars == <<numListeners, lastNb, listenerCalls>>
errorVars == <<errorCount, lastErrorTime, now, errorWindow,
               stabilityWarnings>>
suspendVars == <<lastSuspendTime, suspendLog>>
\* what the registry and bank handlers never touch
hostVars == <<sampleCalls, parameterCalls, listenerVars, errorVars,
              releasedTwice, suspendVars, preInit>>

Ids == 1..MaxId

\* the banks registered with pre-init-load-bank
Banks == {"A", "B"}

Init ==
  /\ wrapper = FALSE
  /\ initialized = FALSE
  /\ loaded = FALSE
  /\ instances = <<>>
  /\ tagIndex = <<>>
  /\ nextInstanceId = 1
  /\ eventDescriptions = {}
  /\ engine = <<>>
  /\ waits = <<>>
  /\ bankConfigs = [b \in Banks |-> [loaded |-> FALSE, bankHandle |-> FALSE]]
  /\ wrapperBanks = {}
  /\ calls = <<>>
  /\ engineBanks = [b \in Banks |-> "unloaded"]
  /\ loadCalls = [b \in Banks |-> 0]
  /\ nextTickArray = <<>>
  /\ tickLog = <<>>
  /\ sampleCalls = 0
  /\ parameterCalls = {}
  /\ numListeners = 1
  /\ lastNb = 1
  /\ listenerCalls = <<>>
  /\ errorCount = 0
  /\ lastErrorTime = 0
  /\ now = 100000
  /\ errorWindow = <<>>
  /\ stabilityWarnings = 0
  /\ releasedTwice = {}
  /\ lastSuspendTime = Num(0)
  /\ suspendLog = <<>>
  /\ preInit = [called |-> FALSE, preRun |-> FALSE, callback |-> "none",
                calls |-> {}]

\* --------------------------------------------------- registry operators
Tracked == DOMAIN instances

\* _removeInstance, were it to delete the identity entry only
RemoveInstanceIdOnly(reg, id) ==
  [instances |-> [i \in DOMAIN reg.instances \ {id} |-> reg.instances[i]],
   tagIndex |-> reg.tagIndex]

\* FMODWrapper._removeInstance, as a function on the two indexes
RemoveInstance(reg, id) ==
  IF id \notin DOMAIN reg.instances THEN reg
  ELSE LET tags == reg.instances[id].tags
           emptied == {t \in DOMAIN reg.tagIndex \cap tags :
                         reg.tagIndex[t] \ {id} = {}}
       IN [instances |-> [i \in DOMAIN reg.instances \ {id} |->
                            reg.instances[i]],
           tagIndex |-> [t \in DOMAIN reg.tagIndex \ emptied |->
                           IF t \in tags THEN reg.tagIndex[t] \ {id}
                           ELSE reg.tagIndex[t]]]

\* the loop "for (const id of toRemove) this._removeInstance(id)"
RECURSIVE RemoveAll(_, _)
RemoveAll(reg, toRemove) ==
  IF toRemove = {} THEN reg
  ELSE LET id == CHOOSE i \in toRemove : \A k \in toRemove : i <= k
       IN RemoveAll(RemoveInstance(reg, id), toRemove \ {id})

\* _getMatchingInstances, were the id branch to forget the released check
GetMatchingInstancesAnyId(name, tag) ==
  LET nameOk(id) == name = NoName \/ instances[id].name = name
      live(id) == id \in Tracked /\ ~instances[id].released
  IN IF tag.t = "num"
       THEN {id \in {tag.v} : id \in Tracked /\ nameOk(id)}
     ELSE IF tag.t = "str" /\ Trim(tag.v) # <<>>
       THEN IF Trim(tag.v) \in DOMAIN tagIndex
              THEN {id \in tagIndex[Trim(tag.v)] : live(id) /\ nameOk(id)}
              ELSE {}
     ELSE {id \in Tracked : live(id) /\ nameOk(id)}

\* _getMatchingInstances, were the match-all branch to forget the name
\* filter
GetMatchingInstancesAnyName(name, tag) ==
  LET nameOk(id) == name = NoName \/ instances[id].name = name
      live(id) == id \in Tracked /\ ~instances[id].released
  IN IF tag.t = "num"
       THEN {id \in {tag.v} : live(id) /\ nameOk(id)}
     ELSE IF tag.t = "str" /\ Trim(tag.v) # <<>>
       THEN IF Trim(tag.v) \in DOMAIN tagIndex
              THEN {id \in tagIndex[Trim(tag.v)] : live(id) /\ nameOk(id)}
              ELSE {}
     ELSE {id \in Tracked : live(id)}

\* FMODWrapper._getMatchingInstances: the ids of the results
GetMatchingInstances(name, tag) ==
  LET nameOk(id) == name = NoName \/ instances[id].name = name
      live(id) == id \in Tracked /\ ~instances[id].released
  IN IF tag.t = "num"
       THEN {id \in {tag.v} : live(id) /\ nameOk(id)}
     ELSE IF tag.t = "str" /\ Trim(tag.v) # <<>>
       THEN IF Trim(tag.v) \in DOMAIN tagIndex
              THEN {id \in tagIndex[Trim(tag.v)] : live(id) /\ nameOk(id)}
              ELSE {}
     ELSE {id \in Tracked : live(id) /\ nameOk(id)}

\* the tag-index update, were it to store a fresh bucket for every tag
AddToTagIndexFresh(tidx, id, tags) ==
  [t \in DOMAIN tidx \cup tags |-> IF t \in tags THEN {id} ELSE tidx[t]]

\* the tag-index update of instantiateEvent / addTags for one id
AddToTagIndex(tidx, id, tags) ==
  [t \in DOMAIN tidx \cup tags |->
     IF t \in tags
       THEN (IF t \in DOMAIN tidx THEN tidx[t] ELSE {}) \cup {id}
       ELSE tidx[t]]

\* removeTags, were it to leave the buckets alone
RemoveFromTagIndexKeep(tidx, id, tags) == tidx

\* removeTags, were it to keep a bucket it has emptied
RemoveFromTagIndexKeepEmpty(tidx, id, tags) ==
  [t \in DOMAIN tidx |-> IF t \in tags THEN tidx[t] \ {id} ELSE tidx[t]]

\* the tag-index update of removeTags for one id
RemoveFromTagIndex(tidx, id, tags) ==
  LET emptied == {t \in DOMAIN tidx \cap tags : tidx[t] \ {id} = {}}
  IN [t \in DOMAIN tidx \ emptied |->
        IF t \in tags THEN tidx[t] \ {id} ELSE tidx[t]]

\* the instance record instantiateEvent stores
NewInstance(name, tags) ==
  [name |-> name, tags |-> ParseTags(tags), released |-> FALSE,
   autoRelease |-> FALSE]

\* the engine's record of a freshly created handle: not playing, no
\* stopped-callback registered, the event parameter at its default, not
\* released
NewHandle ==
  [state |-> "stopped", cb |-> 0, param |-> 0, released |-> FALSE]

\* the engine's handles after instance.release() was called on those in ids
Release(eng, ids) ==
  [id \in DOMAIN eng |->
     IF id \in ids THEN [eng[id] EXCEPT !.released = TRUE] ELSE eng[id]]

\* the handles in ids that the engine had already been asked to release
ReleasedAgain(eng, ids) ==
  {id \in ids \cap DOMAIN eng : eng[id].released}

\* ------------------------------------------------------- initialisation
\* The banks as pre-init-load-bank registered them, in the order of
\* bankConfigs: both are preloaded, and B is not waited for.
PreloadOrder == <<"A", "B">>
NonBlockingOf(b) == b = "B"

\* the loadSampleData setting the banks were registered with, which
\* loadBank uses when the caller passes none
SampleDataOf(b) == b = "A"

\* the load calls for bank b that have not completed
InFlightLoads(b) ==
  {i \in DOMAIN calls :
     calls[i].op = "load" /\ calls[i].bank = b /\ calls[i].pc # "done"}

\* FMODManager.PreInit: the promise waits for the preRun callback and for
\* the callback pushed onto _initCallbacks; HandleInit starts the engine
\* module
PreInit ==
  /\ ~preInit.called
  /\ preInit' = [preInit EXCEPT !.called = TRUE, !.callback = "queued"]
  /\ UNCHANGED <<sysVars, regVars, tickVars, waits, bankVars, sampleCalls,
                 parameterCalls, listenerVars, errorVars, releasedTwice,
                 suspendVars>>

\* FMODManager.preRun: the first promise of PreInit resolves
PreRun ==
  /\ preInit.called /\ ~preInit.preRun
  /\ preInit' = [preInit EXCEPT !.preRun = TRUE]
  /\ UNCHANGED <<sysVars, regVars, tickVars, waits, bankVars, sampleCalls,
                 parameterCalls, listenerVars, errorVars, releasedTwice,
                 suspendVars>>

\* FMODManager.WaitForPreloadBanks up to its await: loadBank is called for
\* every preload bank, in the order of bankConfigs
PreloadCalls ==
  [k \in 1..Len(PreloadOrder) |->
     LET b == PreloadOrder[k]
     IN [op |-> "load", bank |-> b, sample |-> SampleDataOf(b),
         peers |-> InFlightLoads(b),
         pc |-> IF bankConfigs[b].loaded THEN "done" ELSE "fetch",
         result |-> IF bankConfigs[b].loaded THEN "ok" ELSE "pending"]]

\* FMODManager.onRuntimeInitialized: creates the wrapper and initialises
\* the engine; _loaded is set only when initialisation succeeded, and only
\* then are the callbacks in _initCallbacks called: the one PreInit pushed
\* starts the preload of the banks.
OnRuntimeInitialized ==
  /\ ~wrapper
  /\ \E ok \in BOOLEAN :
       /\ wrapper' = TRUE
       /\ initialized' = ok
       /\ loaded' = ok
       /\ IF ok /\ preInit.callback = "queued"
            THEN /\ Len(calls) + Len(PreloadOrder) <= MaxCalls
                 /\ calls' = calls \o PreloadCalls
                 /\ preInit' =
                      [preInit EXCEPT
                         !.callback = "waiting",
                         !.calls = (Len(calls) + 1)..
                                     (Len(calls) + Len(PreloadOrder))]
            ELSE UNCHANGED <<calls, preInit>>
  /\ UNCHANGED <<regVars, tickVars, waits, bankConfigs, wrapperBanks,
                 engineBanks, loadCalls, sampleCalls, parameterCalls,
                 listenerVars, errorVars, releasedTwice, suspendVars>>

\* The callback PreInit pushed, after its await of WaitForPreloadBanks:
\* Promise.all rejects with the first load that fails among those that are
\* waited for, and the callback then never reaches resolve(); it fulfils
\* once every load that is waited for has succeeded.
PreloadSettled ==
  /\ preInit.callback = "waiting"
  /\ LET blocking == {i \in preInit.calls : ~NonBlockingOf(calls[i].bank)}
     IN \/ /\ \E i \in blocking :
                calls[i].pc = "done" /\ calls[i].result = "fail"
           /\ preInit' = [preInit EXCEPT !.callback = "rejected"]
        \/ /\ \A i \in blocking :
                calls[i].pc = "done" /\ calls[i].result = "ok"
           /\ preInit' = [preInit EXCEPT !.callback = "resolved"]
  /\ UNCHANGED <<sysVars, regVars, tickVars, waits, bankVars, sampleCalls,
                 parameterCalls, listenerVars, errorVars, releasedTwice,
                 suspendVars>>

\* Promise.all over the two promises of PreInit
PreInitResolved == preInit.preRun /\ preInit.callback = "resolved"

\* ------------------------------------------------------ event creation
\* FMODWrapper._getEventDescription: cache hit, or engine lookup getOk
DescResolved(name, getOk) == name \in eventDescriptions \/ getOk
DescCache(name, getOk) ==
  IF name \notin eventDescriptions /\ getOk
    THEN eventDescriptions \cup {name} ELSE eventDescriptions

\* What the engine answers to the calls of one creation: the description
\* lookup fails, createInstance fails, start fails, or all succeed.  An
\* engine that was never initialised resolves no description, and no engine
\* resolves an event path that no bank defines.
EngineAnswers(name) ==
  IF initialized /\ name \in KnownEvents
    THEN {"noEvent", "noInstance", "noStart", "ok"} ELSE {"noEvent"}
GetOk(ans) == ans # "noEvent"
CreateOk(ans) == ans \in {"noStart", "ok"}

\* "const id = this.nextInstanceId++", were the counter left where it is
NextIdSame(n) == n

\* the counter after "const id = this.nextInstanceId++"
NextId(n) == n + 1

\* FMODWrapper.instantiateEvent, were the id taken before the engine is
\* asked for the instance
InstantiatedEagerId(name, tags, ans) ==
  IF DescResolved(name, GetOk(ans)) /\ CreateOk(ans)
    THEN LET id == nextInstanceId
         IN [instances |-> (id :> NewInstance(name, tags)) @@ instances,
             tagIndex |-> AddToTagIndex(tagIndex, id, ParseTags(tags)),
             engine |-> (id :> NewHandle) @@ engine,
             nextInstanceId |-> NextId(nextInstanceId),
             eventDescriptions |-> DescCache(name, GetOk(ans)),
             ret |-> Num(id)]
    ELSE [instances |-> instances, tagIndex |-> tagIndex, engine |-> engine,
          nextInstanceId |-> NextId(nextInstanceId),
          eventDescriptions |-> DescCache(name, GetOk(ans)),
          ret |-> Null]

\* FMODWrapper.instantiateEvent as a function of the engine's answers: the
\* registry, cache and engine handles it leaves, and the value it returns
\* (the new id, or null)
Instantiated(name, tags, ans) ==
  IF DescResolved(name, GetOk(ans)) /\ CreateOk(ans)
    THEN LET id == nextInstanceId
         IN [instances |-> (id :> NewInstance(name, tags)) @@ instances,
             tagIndex |-> AddToTagIndex(tagIndex, id, ParseTags(tags)),
             engine |-> (id :> NewHandle) @@ engine,
             nextInstanceId |-> NextId(nextInstanceId),
             eventDescriptions |-> DescCache(name, GetOk(ans)),
             ret |-> Num(id)]
    ELSE [instances |-> instances, tagIndex |-> tagIndex, engine |-> engine,
          nextInstanceId |-> nextInstanceId,
          eventDescriptions |-> DescCache(name, GetOk(ans)),
          ret |-> Null]

\* FMODManager.instantiateEvent -> FMODWrapper.instantiateEvent
instantiateEvent(name, tags) ==
  /\ wrapper
  /\ \E ans \in EngineAnswers(name) \ {"noStart"} :
       LET o == Instantiated(name, tags, ans)
       IN /\ o.nextInstanceId <= MaxId + 1
          /\ instances' = o.instances
          /\ tagIndex' = o.tagIndex
          /\ engine' = o.engine
          /\ nextInstanceId' = o.nextInstanceId
          /\ eventDescriptions' = o.eventDescriptions
  /\ UNCHANGED <<sysVars, hostVars, tickVars, waits, bankVars>>

\* FMODManager.startOneTimeEvent -> FMODWrapper.startOneTimeEvent: the
\* instance is started and released at once and is never tracked, so the
\* description cache is all that the call changes
startOneTimeEvent(name) ==
  /\ wrapper
  /\ \E ans \in EngineAnswers(name) :
       eventDescriptions' = DescCache(name, GetOk(ans))
  /\ UNCHANGED <<sysVars, hostVars, tickVars, instances, tagIndex, nextInstanceId,
                 engine, waits, bankVars>>

\* FMODWrapper.startEvent, were a refused start to leave the new instance
\* in the registry
StartedOrphan(name, tags, destroyWhenStopped, ans) ==
  LET c == Instantiated(name, tags, ans)
  IN IF c.ret = Null
       THEN [instances |-> c.instances, tagIndex |-> c.tagIndex,
             engine |-> c.engine, nextInstanceId |-> c.nextInstanceId,
             eventDescriptions |-> c.eventDescriptions,
             ret |-> Null, created |-> {}, released |-> {}]
       ELSE LET id == c.ret.v
            IN [instances |-> [c.instances EXCEPT
                                 ![id].autoRelease = destroyWhenStopped],
                tagIndex |-> c.tagIndex,
                engine |-> IF ans = "ok"
                             THEN [c.engine EXCEPT ![id].state = "playing"]
                             ELSE c.engine,
                nextInstanceId |-> c.nextInstanceId,
                eventDescriptions |-> c.eventDescriptions,
                ret |-> IF ans = "ok" THEN Num(id) ELSE Null,
                created |-> {id}, released |-> {}]

\* FMODWrapper.startEvent as a function of the engine's answers: what it
\* leaves, the value it returns, the handle the engine created for it and
\* the handles it released on the engine.  The handle of a refused start is
\* released and dropped with the registry's only reference to it.
Started(name, tags, destroyWhenStopped, ans) ==
  LET c == Instantiated(name, tags, ans)
  IN IF c.ret = Null
       THEN [instances |-> c.instances, tagIndex |-> c.tagIndex,
             engine |-> c.engine, nextInstanceId |-> c.nextInstanceId,
             eventDescriptions |-> c.eventDescriptions,
             ret |-> Null, created |-> {}, released |-> {}]
       ELSE LET id == c.ret.v
                reg == [instances |-> [c.instances EXCEPT
                                         ![id].autoRelease =
                                           destroyWhenStopped],
                        tagIndex |-> c.tagIndex]
            IN IF ans = "ok"
                 THEN [instances |-> reg.instances,
                       tagIndex |-> reg.tagIndex,
                       engine |-> [c.engine EXCEPT ![id].state = "playing"],
                       nextInstanceId |-> c.nextInstanceId,
                       eventDescriptions |-> c.eventDescriptions,
                       ret |-> Num(id), created |-> {id}, released |-> {}]
                 ELSE [instances |-> RemoveInstance(reg, id).instances,
                       tagIndex |-> RemoveInstance(reg, id).tagIndex,
                       engine |-> engine,
                       nextInstanceId |-> c.nextInstanceId,
                       eventDescriptions |-> c.eventDescriptions,
                       ret |-> Null, created |-> {id}, released |-> {id}]

\* FMODManager.startEvent -> FMODWrapper.startEvent
startEvent(name, tags, destroyWhenStopped) ==
  /\ wrapper
  /\ \E ans \in EngineAnswers(name) :
       LET o == Started(name, tags, destroyWhenStopped, ans)
       IN /\ o.nextInstanceId <= MaxId + 1
          /\ instances' = o.instances
          /\ tagIndex' = o.tagIndex
          /\ engine' = o.engine
          /\ nextInstanceId' = o.nextInstanceId
          /\ eventDescriptions' = o.eventDescriptions
          /\ releasedTwice' =
               releasedTwice \cup ReleasedAgain(engine, o.released)
  /\ UNCHANGED <<sysVars, suspendVars, preInit, tickVars, waits, bankVars, sampleCalls,
                 parameterCalls, listenerVars, errorVars>>

\* ------------------------------------------------------ engine callbacks
\* The engine delivers STUDIO_EVENT_CALLBACK_STOPPED for the handles in
\* stopped, to the one callback function each handle holds (setCallback
\* replaces the function set before): the function registered by
\* waitForEventStop resolves the inner promise of the wait it belongs to.
\* A wait also records which of its matched instances have reported the
\* stopped callback since it was made.
FireStopped(ws, eng, stopped) ==
  [w \in DOMAIN ws |->
     [ws[w] EXCEPT
        !.pending = @ \ {id \in stopped : eng[id].cb = w},
        !.stopped = @ \cup {id \in stopped \cap ws[w].matched :
                              eng[id].cb # 0}]]

\* ------------------------------------------------------- bulk operations
\* the loop of stopEvent, were it to release only the instances whose stop
\* call succeeded
StoppedReleaseIfHalted(name, tag, allowFadeOut, release, failed) ==
  LET matched == GetMatchingInstances(name, tag)
      haltable == {id \in matched :
                     ~allowFadeOut /\ engine[id].state = "playing"}
      halted == haltable \ failed
      released == IF release THEN matched \ failed ELSE {}
  IN [engine |-> Release([id \in DOMAIN engine |->
                            IF id \in halted
                              THEN [engine[id] EXCEPT !.state = "stopped"]
                              ELSE engine[id]], released),
      waits |-> FireStopped(waits, engine, halted),
      instances |-> [id \in Tracked |->
                       IF id \in released
                         THEN [instances[id] EXCEPT !.released = TRUE]
                         ELSE instances[id]],
      released |-> released]

\* The loop of FMODWrapper.stopEvent over the matched instances, when the
\* engine's stop call fails on the handles in failed: an immediate stop
\* that succeeds halts a playing instance at once (a fade-out ends later,
\* with EngineFinish), and release calls the engine's release on every
\* matched instance and marks it.  The outcome names the handles the engine
\* was asked to release.
Stopped(name, tag, allowFadeOut, release, failed) ==
  LET matched == GetMatchingInstances(name, tag)
      haltable == {id \in matched :
                     ~allowFadeOut /\ engine[id].state = "playing"}
      halted == haltable \ failed
      released == IF release THEN matched ELSE {}
  IN [engine |-> Release([id \in DOMAIN engine |->
                            IF id \in halted
                              THEN [engine[id] EXCEPT !.state = "stopped"]
                              ELSE engine[id]], released),
      waits |-> FireStopped(waits, engine, halted),
      instances |-> [id \in Tracked |->
                       IF id \in released
                         THEN [instances[id] EXCEPT !.released = TRUE]
                         ELSE instances[id]],
      released |-> released]

\* FMODManager.stopEvent -> FMODWrapper.stopEvent
stopEvent(name, tag, allowFadeOut, release) ==
  /\ wrapper
  /\ LET matched == GetMatchingInstances(name, tag)
         haltable == {id \in matched :
                        ~allowFadeOut /\ engine[id].state = "playing"}
     IN \E failed \in SUBSET haltable :
          LET o == Stopped(name, tag, allowFadeOut, release, failed)
          IN /\ engine' = o.engine
             /\ waits' = o.waits
             /\ instances' = o.instances
             /\ releasedTwice' =
                  releasedTwice \cup ReleasedAgain(engine, o.released)
  /\ UNCHANGED <<sysVars, suspendVars, preInit, tickVars, tagIndex, nextInstanceId,
                 eventDescriptions, bankVars, sampleCalls, parameterCalls,
                 listenerVars, errorVars>>

\* the values setEventParameter is driven with
ParamValues == {1}

\* the loop of setEventParameter, were it to end at the first instance on
\* which the engine call fails
ParameterSetAbort(name, tag, value, failed) ==
  LET matched == GetMatchingInstances(name, tag)
      called == {id \in matched : \A k \in failed : id <= k}
  IN [engine |-> [id \in DOMAIN engine |->
                    IF id \in called \ failed
                      THEN [engine[id] EXCEPT !.param = value]
                      ELSE engine[id]],
      called |-> called]

\* The loop of FMODWrapper.setEventParameter over the matched instances,
\* when the engine call fails on the handles in failed: the engine's
\* handles after it, and the handles the engine was called on.
ParameterSet(name, tag, value, failed) ==
  LET matched == GetMatchingInstances(name, tag)
  IN [engine |-> [id \in DOMAIN engine |->
                    IF id \in matched \ failed
                      THEN [engine[id] EXCEPT !.param = value]
                      ELSE engine[id]],
      called |-> matched]

\* FMODManager.setEventParameter -> FMODWrapper.setEventParameter
setEventParameter(name, tag, value) ==
  /\ wrapper
  /\ \E failed \in SUBSET GetMatchingInstances(name, tag) :
       LET o == ParameterSet(name, tag, value, failed)
       IN /\ engine' = o.engine
          /\ parameterCalls' = o.called
  /\ UNCHANGED <<sysVars, suspendVars, preInit, tickVars, instances, tagIndex, nextInstanceId,
                 eventDescriptions, waits, bankVars, sampleCalls,
                 listenerVars, errorVars, releasedTwice>>

\* FMODManager.releaseAllEventInstances -> FMODWrapper.releaseAllEventInstances
releaseAllEventInstances(name) ==
  /\ wrapper
  /\ LET matched == GetMatchingInstances(name, Null)
         released == {id \in matched : ~instances[id].released}
     IN /\ instances' = [id \in Tracked |->
                           IF id \in released
                             THEN [instances[id] EXCEPT !.released = TRUE]
                             ELSE instances[id]]
        /\ engine' = Release(engine, released)
        /\ releasedTwice' =
             releasedTwice \cup ReleasedAgain(engine, released)
  /\ UNCHANGED <<sysVars, suspendVars, preInit, tickVars, tagIndex, nextInstanceId,
                 eventDescriptions, waits, bankVars, sampleCalls,
                 parameterCalls, listenerVars, errorVars>>

\* FMODWrapper.addTags
addTags(id, tags) ==
  /\ wrapper
  /\ id \in Tracked
  /\ LET added == SplitTags(tags) \ instances[id].tags
     IN /\ instances' = [instances EXCEPT ![id].tags = @ \cup added]
        /\ tagIndex' = AddToTagIndex(tagIndex, id, added)
  /\ UNCHANGED <<sysVars, hostVars, tickVars, nextInstanceId, eventDescriptions, engine, waits,
                 bankVars>>

\* FMODWrapper.removeTags
removeTags(id, tags) ==
  /\ wrapper
  /\ id \in Tracked
  /\ LET removed == SplitTags(tags) \cap instances[id].tags
     IN /\ instances' = [instances EXCEPT ![id].tags = @ \ removed]
        /\ tagIndex' = RemoveFromTagIndex(tagIndex, id, removed)
  /\ UNCHANGED <<sysVars, hostVars, tickVars, nextInstanceId, eventDescriptions, engine, waits,
                 bankVars>>

\* FMODWrapper.getInstancesByTag: the ids in the bucket of the tag, as it
\* is passed
GetInstancesByTag(tag) ==
  IF tag \in DOMAIN tagIndex THEN tagIndex[tag] ELSE {}

\* FMODWrapper.getAllInstances: the tracked ids not marked released
GetAllInstances == {id \in Tracked : ~instances[id].released}

\* the tags the queries are asked for: two that instances carry and one
\* that none carries
QueryTags == {<<"a">>, <<"b">>, <<"c">>}

\* ------------------------------------------------------------ update tick
\* _cleanupInstances, were it to reap every stopped instance
ToRemoveAnyStopped(stale) ==
  {id \in Tracked :
     \/ instances[id].released
     \/ id \in stale
     \/ engine[id].state = "stopped"}

\* _cleanupInstances, were it to skip the instances already marked released
ToRemoveUnreleased(stale) ==
  {id \in Tracked :
     ~instances[id].released
       /\ (\/ id \in stale
           \/ engine[id].state = "stopped" /\ instances[id].autoRelease)}

\* the ids FMODWrapper._cleanupInstances queues in toRemove, when the
\* playback-state query fails for the handles in stale
ToRemove(stale) ==
  {id \in Tracked :
     \/ instances[id].released
     \/ id \in stale
     \/ engine[id].state = "stopped" /\ instances[id].autoRelease}

\* _cleanupInstances, were it to release every stopped auto-release
\* instance, marked released or not
ToReleaseMarked(stale) ==
  {id \in Tracked :
     /\ id \notin stale
     /\ engine[id].state = "stopped" /\ instances[id].autoRelease}

\* the handles FMODWrapper._cleanupInstances calls release on: the stopped
\* auto-release instances that are not marked released yet
ToRelease(stale) ==
  {id \in Tracked :
     /\ ~instances[id].released
     /\ id \notin stale
     /\ engine[id].state = "stopped" /\ instances[id].autoRelease}

\* The registry drops its only reference to the handles it removes: the
\* engine's record of such a handle matters from then on only while a
\* stopped-callback is still registered on it.
Forget(eng, removed) ==
  [id \in {i \in DOMAIN eng : i \notin removed \/ eng[i].cb # 0} |-> eng[id]]

\* The functions hosts defer with nextTick: one that does nothing, one that
\* throws, one that releases every event instance.
Fns == {"noop", "throw", "release"}

\* FMODManager.nextTick
nextTick(fn) ==
  /\ Len(nextTickArray) < MaxQueue
  /\ nextTickArray' = Append(nextTickArray, fn)
  /\ UNCHANGED <<sysVars, hostVars, regVars, waits, bankVars, tickLog>>

\* the forEach over the queue, were a throwing function to end it
RunCallbacksAbort(q) ==
  LET throwing == {i \in 1..Len(q) : q[i] = "throw"}
      last == IF throwing = {} THEN Len(q)
              ELSE CHOOSE i \in throwing : \A k \in throwing : i <= k
  IN [ran |-> SubSeq(q, 1, last),
      completed |-> throwing = {}]

\* The forEach over the queue in FMODManager.update: the functions that were
\* called, and whether the loop ran to its end.  Each call sits in its own
\* try/catch, so a throwing function ends neither the loop nor the tick.
RunCallbacks(q) ==
  [ran |-> q, completed |-> TRUE]

\* the registry after the functions in ran were called: "release" marks
\* every live instance released (releaseAllEventInstances without a name)
AfterCallbacks(ran) ==
  IF \E i \in 1..Len(ran) : ran[i] = "release"
    THEN [instances |-> [id \in Tracked |->
                           [instances[id] EXCEPT !.released = TRUE]],
          tagIndex |-> tagIndex]
    ELSE [instances |-> instances, tagIndex |-> tagIndex]

\* the ids the reconciliation pass removes when it runs after the functions
\* in ran
Reaped(ran, stale) ==
  IF \E i \in 1..Len(ran) : ran[i] = "release" THEN Tracked
  ELSE ToRemove(stale)

\* The handles one tick calls release on: a "release" function releases
\* every instance not marked released, which leaves the pass none to
\* release; otherwise the pass releases its own.
TickReleased(ran, stale) ==
  IF \E i \in 1..Len(ran) : ran[i] = "release"
    THEN {id \in Tracked : ~instances[id].released}
    ELSE ToRelease(stale)

\* FMODWrapper._cleanupInstances, run after the functions in ran were called
CleanupInstances(ran, stale) ==
  RemoveAll(AfterCallbacks(ran), Reaped(ran, stale))

CallbackLog(ran) == [i \in 1..Len(ran) |-> "callback"]

\* the update tick, were the wrapper updated before the queue is drained
TickReconcileFirst(q, stale) ==
  LET r == RunCallbacks(q)
      reg == CleanupInstances(<<>>, stale)
      marked == IF \E i \in 1..Len(r.ran) : r.ran[i] = "release"
                  THEN [id \in DOMAIN reg.instances |->
                          [reg.instances[id] EXCEPT !.released = TRUE]]
                  ELSE reg.instances
  IN [instances |-> marked, tagIndex |-> reg.tagIndex,
      removed |-> ToRemove(stale), queue |-> <<>>,
      log |-> <<"reconcile", "engineUpdate">> \o CallbackLog(r.ran)]

\* The body of FMODManager.update on a ready system: the queue is drained,
\* the queue is reset, then FMODWrapper.update reconciles the registry and
\* updates the engine.  An exception that escapes the drain is caught by the
\* outer try/catch, which skips the reset and the wrapper's update.
Tick(q, stale) ==
  LET r == RunCallbacks(q)
      after == AfterCallbacks(r.ran)
  IN IF r.completed
       THEN LET reg == CleanupInstances(r.ran, stale)
            IN [instances |-> reg.instances, tagIndex |-> reg.tagIndex,
                removed |-> Reaped(r.ran, stale), queue |-> <<>>,
                log |-> CallbackLog(r.ran) \o <<"reconcile", "engineUpdate">>]
       ELSE [instances |-> after.instances, tagIndex |-> after.tagIndex,
             removed |-> {}, queue |-> q, log |-> CallbackLog(r.ran)]

\* ------------------------------------------------------------ listeners
\* the numbers that are no finite number
NaN == [t |-> "nan"]
Infinity == [t |-> "inf"]

\* isFinite(val)
IsFinite(v) == v.t = "num"

\* "id < 0 || id >= this._numListeners": a comparison with NaN is false
IdOutOfRange(id, n) ==
  \/ id.t = "num" /\ (id.v < 0 \/ id.v >= n)
  \/ id.t = "inf"

\* the listener indexes, counts and weights the host passes
ListenerIds == {Num(n) : n \in -1..2} \cup {NaN}
ListenerCounts == {1, 2}
ListenerWeights == {Num(1)}

\* The fifteen numbers of a setListener3DAttributes call: position,
\* velocity, forward and up (values), and the attenuation position, which
\* counts only when hasSeparateAttenuationPosition is set.
Finite12 == [i \in 1..12 |-> Num(0)]
Finite3 == [i \in 1..3 |-> Num(0)]
ListenerAttributes ==
  [values : {Finite12, [Finite12 EXCEPT ![1] = NaN],
             [Finite12 EXCEPT ![12] = Infinity]},
   hasSeparateAttenuationPosition : BOOLEAN,
   attenuation : {Finite3, [Finite3 EXCEPT ![2] = NaN]}]

\* the values FMODManager.setListener3DAttributes checks with isFinite
CheckedValues(a) ==
  IF a.hasSeparateAttenuationPosition
    THEN a.values \o a.attenuation ELSE a.values

\* Whether FMODWrapper.system exists: it does on an initialised engine, it
\* does not before the wrapper is made, and an initialisation that failed
\* may have stopped before or after the system was created.
SystemExists ==
  IF ~wrapper THEN {FALSE} ELSE IF initialized THEN {TRUE} ELSE BOOLEAN

\* FMODManager.setNbListeners -> FMODWrapper.setNbListeners: the count is
\* recorded whatever the engine answers, unless the call never reached the
\* wrapper or the wrapper threw
setNbListeners(nb) ==
  /\ lastNb' = nb
  /\ \E system \in SystemExists :
       IF system
         THEN /\ Len(listenerCalls) < MaxListenerCalls
              /\ listenerCalls' =
                   Append(listenerCalls,
                          [op |-> "setNumListeners", id |-> Null,
                           arg |-> Num(nb)])
              /\ numListeners' = nb
         ELSE UNCHANGED <<numListeners, listenerCalls>>
  /\ UNCHANGED <<sysVars, suspendVars, preInit, tickVars, regVars, waits, bankVars, sampleCalls,
                 parameterCalls, errorVars, releasedTwice>>

\* FMODManager.setListener3DAttributes -> FMODWrapper.setListener3DAttributes
setListener3DAttributes(id, a) ==
  /\ IF /\ wrapper /\ loaded
        /\ ~IdOutOfRange(id, numListeners)
        /\ \A i \in DOMAIN CheckedValues(a) : IsFinite(CheckedValues(a)[i])
       THEN /\ Len(listenerCalls) < MaxListenerCalls
            /\ listenerCalls' =
                 Append(listenerCalls,
                        [op |-> "setListenerAttributes", id |-> id,
                         arg |-> a])
       ELSE UNCHANGED listenerCalls
  /\ UNCHANGED <<sysVars, suspendVars, preInit, tickVars, regVars, waits, bankVars, sampleCalls,
                 parameterCalls, numListeners, lastNb, errorVars,
                 releasedTwice>>

\* FMODManager.setListenerWeight -> FMODWrapper.setListenerWeight
setListenerWeight(id, weight) ==
  /\ \E system \in SystemExists :
       IF system
         THEN /\ Len(listenerCalls) < MaxListenerCalls
              /\ listenerCalls' =
                   Append(listenerCalls,
                          [op |-> "setListenerWeight", id |-> id,
                           arg |-> weight])
         ELSE UNCHANGED listenerCalls
  /\ UNCHANGED <<sysVars, suspendVars, preInit, tickVars, regVars, waits, bankVars, sampleCalls,
                 parameterCalls, numListeners, lastNb, errorVars,
                 releasedTwice>>

\* -------------------------------------------------------------- suspend
\* "a <= b" on JavaScript numbers: false when either side is NaN
LessEq(a, b) == a.t = "num" /\ b.t = "num" /\ a.v <= b.v

\* "time <= this.lastSuspendTime"
TooOld(time, last) == LessEq(time, last)

\* Whether FMODWrapper.coreSystem exists: as for the studio system, an
\* initialisation that failed may have stopped before or after it was set.
CoreSystemExists ==
  IF ~wrapper THEN {FALSE} ELSE IF initialized THEN {TRUE} ELSE BOOLEAN

\* the timestamps the host passes with set-suspended
SuspendTimes == {Num(1), Num(2), NaN}

\* FMODManager.setSuspended -> FMODWrapper.setSuspended: a call that passes
\* the guards records its timestamp, then asks the mixer to suspend or
\* resume if the core system exists
setSuspended(suspended, time) ==
  /\ IF ~wrapper \/ TooOld(time, lastSuspendTime)
       THEN UNCHANGED suspendVars
       ELSE /\ Len(suspendLog) < MaxSuspendCalls
            /\ lastSuspendTime' = time
            /\ \E core \in CoreSystemExists :
                 suspendLog' =
                   Append(suspendLog,
                          [suspended |-> suspended, time |-> time,
                           engine |-> core])
  /\ UNCHANGED <<sysVars, tickVars, regVars, waits, bankVars, sampleCalls,
                 parameterCalls, listenerVars, errorVars, releasedTwice,
                 preInit>>

\* ------------------------------------------------------ error tracking
\* this._errorResetInterval
ErrorResetInterval == 60000
\* the count above which _trackError warns
ErrorThreshold == 10

\* the error-tracking fields, and what the host has seen of them
ErrorState ==
  [errorCount |-> errorCount, lastErrorTime |-> lastErrorTime,
   errorWindow |-> errorWindow, stabilityWarnings |-> stabilityWarnings]

\* FMODManager._trackError at the time now: the count starts again when the
\* error before this one is more than the reset interval old
TrackError(e) ==
  LET count == IF now - e.lastErrorTime > ErrorResetInterval
                 THEN 1 ELSE e.errorCount + 1
  IN [errorCount |-> count,
      lastErrorTime |-> now,
      errorWindow |-> Append(e.errorWindow, now),
      stabilityWarnings |-> IF count > ErrorThreshold
                              THEN e.stabilityWarnings + 1
                              ELSE e.stabilityWarnings]

\* n calls of _trackError in one tick
RECURSIVE TrackErrors(_, _)
TrackErrors(e, n) ==
  IF n = 0 THEN e ELSE TrackErrors(TrackError(e), n - 1)

\* the number of called functions that threw
Thrown(ran) == Cardinality({i \in 1..Len(ran) : ran[i] = "throw"})

\* the clock moves on; errors older than the reset interval leave the window
ClockSteps == {30000, 90000}
Advance(dt) ==
  /\ now + dt <= MaxTime
  /\ now' = now + dt
  /\ errorWindow' = SelectSeq(errorWindow,
                              LAMBDA t : t >= now + dt - ErrorResetInterval)
  /\ UNCHANGED <<sysVars, suspendVars, preInit, tickVars, regVars, waits, bankVars, sampleCalls,
                 parameterCalls, listenerVars, errorCount, lastErrorTime,
                 stabilityWarnings, releasedTwice>>

\* The functions the called functions pushed onto nextTickArray while the
\* forEach was running: a "defer" function calls nextTick with a function
\* that does nothing.
Pushed(ran) ==
  [i \in 1..Cardinality({k \in 1..Len(ran) : ran[k] = "defer"}) |-> "noop"]

\* Array.prototype.forEach visits the indexes below the length the array had
\* when the loop began, so the functions pushed during the drain are still
\* uncalled in the array when "this.nextTickArray = []" replaces it.
Discarded(q) == Pushed(RunCallbacks(q).ran)

\* the guard of FMODManager.update, were it missing
NotReadyNever == FALSE

\* "!this.wrapper || !this._loaded"
NotReady == ~wrapper \/ ~loaded

\* The tick when FMODWrapper.update returns at its own guard (a wrapper
\* that is not initialised): the drain and the reset of the queue alone.
TickDrainOnly(q) ==
  LET r == RunCallbacks(q)
      after == AfterCallbacks(r.ran)
  IN [instances |-> after.instances, tagIndex |-> after.tagIndex,
      removed |-> {}, queue |-> <<>>, log |-> CallbackLog(r.ran)]

\* FMODManager.update -> FMODWrapper.update.  On a system that is not ready
\* the call returns at once: such a tick takes no step.
update(stale) ==
  IF NotReady
    THEN /\ tickLog' = <<>>
         /\ UNCHANGED <<sysVars, hostVars, regVars, waits, bankVars,
                        nextTickArray>>
    ELSE /\ LET t == IF wrapper /\ initialized
                       THEN Tick(nextTickArray, stale)
                       ELSE TickDrainOnly(nextTickArray)
            IN /\ instances' = t.instances
               /\ tagIndex' = t.tagIndex
               /\ nextTickArray' = t.queue
               /\ tickLog' = t.log
               /\ LET released ==
                        TickReleased(RunCallbacks(nextTickArray).ran, stale)
                  IN /\ engine' =
                          Forget(Release(engine, released), t.removed)
                     /\ releasedTwice' =
                          releasedTwice \cup ReleasedAgain(engine, released)
         /\ LET e == TrackErrors(ErrorState,
                                 Thrown(RunCallbacks(nextTickArray).ran))
            IN /\ e.errorCount <= MaxErrors
               /\ errorCount' = e.errorCount
               /\ lastErrorTime' = e.lastErrorTime
               /\ errorWindow' = e.errorWindow
               /\ stabilityWarnings' = e.stabilityWarnings
         /\ UNCHANGED <<sysVars, suspendVars, preInit, nextInstanceId, eventDescriptions, waits,
                        bankVars, sampleCalls, parameterCalls, listenerVars,
                        now>>

\* ---------------------------------------------------------- waiting
\* waitForEventStop, were it to lack the early return for an empty match
\* and to wait for a callback in every case
NewWaitNoEarlyReturn(matched, cbFailed) ==
  [matched |-> matched, stopped |-> {}, pending |-> matched \ cbFailed,
   complete |-> FALSE]

\* the promise waitForEventStop returns: the matched instances whose
\* stopped-callback has not fired yet, and whether the promise is fulfilled
NewWait(matched, cbFailed) ==
  [matched |-> matched, stopped |-> {}, pending |-> matched \ cbFailed,
   complete |-> matched = {}]

\* FMODManager.waitForEventStop -> FMODWrapper.waitForEventStop
waitForEventStop(name, tag) ==
  /\ wrapper
  /\ Len(waits) < MaxWaits
  /\ LET matched == GetMatchingInstances(name, tag)
         w == Len(waits) + 1
     IN \E cbFailed \in SUBSET matched :
          /\ waits' = Append(waits, NewWait(matched, cbFailed))
          /\ engine' = [id \in DOMAIN engine |->
                          IF id \in matched \ cbFailed
                            THEN [engine[id] EXCEPT !.cb = w]
                            ELSE engine[id]]
  /\ UNCHANGED <<sysVars, hostVars, tickVars, instances, tagIndex, nextInstanceId,
                 eventDescriptions, bankVars>>

\* Promise.all fulfils once every inner promise has resolved
SettleWait(w) ==
  /\ w \in DOMAIN waits
  /\ ~waits[w].complete
  /\ waits[w].pending = {}
  /\ waits' = [waits EXCEPT ![w].complete = TRUE]
  /\ UNCHANGED <<sysVars, hostVars, tickVars, regVars, bankVars>>

\* ------------------------------------------------------------ the engine
\* a playing instance reaches the end of its timeline (or of its fade-out)
EngineFinish(id) ==
  /\ id \in DOMAIN engine
  /\ engine[id].state = "playing"
  /\ engine' = [engine EXCEPT ![id].state = "stopped"]
  /\ waits' = FireStopped(waits, engine, {id})
  /\ UNCHANGED <<sysVars, hostVars, tickVars, instances, tagIndex, nextInstanceId,
                 eventDescriptions, bankVars>>

\* ------------------------------------------------------------- inputs
\* what callers pass as the tags of a new instance, and as a selector
TagArgs == {Str(s) : s \in TagStrings} \cup {Num(1)}
Selectors == {Str(s) : s \in TagStrings} \cup {Null}
               \cup {Num(n) : n \in 1..(MaxId + 1)}
\* the selectors the bulk operations are driven with
OpSelectors == {Null, Str(<<" ", "a", " ">>), Str(<<"b">>)}
                 \cup {Num(n) : n \in Ids}

Next ==
  \/ OnRuntimeInitialized
  \/ \E name \in Names, tags \in TagArgs : instantiateEvent(name, tags)
  \/ \E name \in Names, tags \in TagArgs, d \in BOOLEAN :
       startEvent(name, tags, d)
  \/ \E name \in NameFilters, tag \in OpSelectors, f \in BOOLEAN,
        r \in BOOLEAN : stopEvent(name, tag, f, r)
  \/ \E name \in NameFilters : releaseAllEventInstances(name)
  \/ \E id \in Ids, s \in TagStrings : addTags(id, s)
  \/ \E id \in Ids, s \in TagStrings : removeTags(id, s)
  \/ \E stale \in SUBSET Tracked : update(stale)
  \/ \E id \in Ids : EngineFinish(id)

Spec == Init /\ [][Next]_vars

\* the tags and selectors the waits are driven with
WaitTags == {Str(<<"a", " ", " ", "b">>)}
WaitSelectors == {Null, Str(<<" ", "a", " ">>), Num(1)}

\* creation, stopping and reconciliation together with waitForEventStop
WaitNext ==
  \/ OnRuntimeInitialized
  \/ \E tags \in WaitTags : instantiateEvent("e1", tags)
  \/ \E tags \in WaitTags, d \in BOOLEAN : startEvent("e1", tags, d)
  \/ \E tag \in WaitSelectors, f \in BOOLEAN, r \in BOOLEAN :
       stopEvent(NoName, tag, f, r)
  \/ \E stale \in SUBSET Tracked : update(stale)
  \/ \E id \in Ids : EngineFinish(id)
  \/ \E name \in NameFilters, tag \in WaitSelectors :
       waitForEventStop(name, tag)
  \/ \E w \in 1..MaxWaits : SettleWait(w)

WaitSpec == Init /\ [][WaitNext]_vars

\* the update tick together with the deferred-callback queue
TickNext ==
  \/ OnRuntimeInitialized
  \/ \E d \in BOOLEAN : startEvent("e1", Str(<<"a", " ", " ", "b">>), d)
  \/ \E fn \in Fns : nextTick(fn)
  \/ \E stale \in SUBSET Tracked : update(stale)
  \/ \E id \in Ids : EngineFinish(id)

TickSpec == Init /\ [][TickNext]_vars

\* Ticks over throwing functions while the clock moves.
ErrorFns == {"noop", "throw"}

ErrorNext ==
  \/ OnRuntimeInitialized
  \/ \E fn \in ErrorFns : nextTick(fn)
  \/ \E stale \in SUBSET Tracked : update(stale)
  \/ \E dt \in ClockSteps : Advance(dt)

ErrorSpec == Init /\ [][ErrorNext]_vars

\* The update tick over functions that defer another function.
DeferFns == {"noop", "defer"}

DeferNext ==
  \/ OnRuntimeInitialized
  \/ \E d \in BOOLEAN : startEvent("e1", Str(<<"a">>), d)
  \/ \E fn \in DeferFns : nextTick(fn)
  \/ \E stale \in SUBSET Tracked : update(stale)
  \/ \E id \in Ids : EngineFinish(id)

DeferSpec == Init /\ [][DeferNext]_vars

\* The suspend handler.
SuspendNext ==
  \/ OnRuntimeInitialized
  \/ \E suspended \in BOOLEAN, time \in SuspendTimes :
       setSuspended(suspended, time)

SuspendSpec == Init /\ [][SuspendNext]_vars

\* The listener handlers.
ListenerNext ==
  \/ OnRuntimeInitialized
  \/ \E nb \in ListenerCounts : setNbListeners(nb)
  \/ \E id \in ListenerIds, a \in ListenerAttributes :
       setListener3DAttributes(id, a)
  \/ \E id \in ListenerIds, weight \in ListenerWeights :
       setListenerWeight(id, weight)

ListenerSpec == Init /\ [][ListenerNext]_vars

\* The bulk operations over a selector match, driven over instances of one
\* event that share a tag.
BulkSelectors == {Null, Str(<<"a">>), Num(1)}

BulkNext ==
  \/ OnRuntimeInitialized
  \/ startEvent("e1", Str(<<"a">>), FALSE)
  \/ \E tag \in BulkSelectors, value \in ParamValues :
       setEventParameter(NoName, tag, value)
  \/ \E tag \in BulkSelectors, f \in BOOLEAN, r \in BOOLEAN :
       stopEvent(NoName, tag, f, r)
  \/ \E stale \in SUBSET Tracked : update(stale)

BulkSpec == Init /\ [][BulkNext]_vars

\* Creations that succeed and fail, releases and reconcile passes, driven
\* with one tag string.
CreateTags == {Str(<<"a">>)}

CreateNext ==
  \/ OnRuntimeInitialized
  \/ \E name \in Names, tags \in CreateTags : instantiateEvent(name, tags)
  \/ \E name \in Names, tags \in CreateTags, d \in BOOLEAN :
       startEvent(name, tags, d)
  \/ \E name \in NameFilters : releaseAllEventInstances(name)
  \/ \E f \in BOOLEAN, r \in BOOLEAN : stopEvent(NoName, Null, f, r)
  \/ \E stale \in SUBSET Tracked : update(stale)
  \/ \E id \in Ids : EngineFinish(id)

CreateSpec == Init /\ [][CreateNext]_vars

\* ---------------------------------------------------------------- banks
Finish(i, result) == [calls EXCEPT ![i].pc = "done", ![i].result = result]

\* loadBank, were it to lack the check of the loaded flag
loadBankNoCheck(b, loadSampleData) ==
  /\ Len(calls) < MaxCalls
  /\ calls' = Append(calls,
       [op |-> "load", bank |-> b, sample |-> loadSampleData,
        peers |-> InFlightLoads(b), pc |-> "fetch", result |-> "pending"])
  /\ UNCHANGED <<sysVars, hostVars, tickVars, regVars, waits, bankConfigs, wrapperBanks,
                 engineBanks, loadCalls>>

\* FMODManager.loadBank up to its first await: a loaded bank returns at once,
\* any other call goes on to fetch the payload
loadBank(b, loadSampleData) ==
  /\ Len(calls) < MaxCalls
  /\ calls' = Append(calls,
       [op |-> "load", bank |-> b, sample |-> loadSampleData,
        peers |-> InFlightLoads(b),
        pc |-> IF bankConfigs[b].loaded THEN "done" ELSE "fetch",
        result |-> IF bankConfigs[b].loaded THEN "ok" ELSE "pending"])
  /\ UNCHANGED <<sysVars, hostVars, tickVars, regVars, waits, bankConfigs, wrapperBanks,
                 engineBanks, loadCalls>>

\* FMODWrapper.loadBankMemory -> the engine's load-bank-from-memory: the
\* answers the engine can give for bank b
LoadBankMemory(b) ==
  IF engineBanks[b] = "unloaded" THEN {"ok", "error"}
  ELSE {"alreadyLoaded", "error"}

\* the bank record, were it marked loaded as soon as the engine accepted
\* the load
RegisteredRecordLoaded(rec) ==
  [rec EXCEPT !.bankHandle = TRUE, !.loaded = TRUE]

\* the bank record once the engine accepted the load: it holds the handle
RegisteredRecord(rec) == [rec EXCEPT !.bankHandle = TRUE]

\* FMODManager.loadBank from the fetched payload to the next await.  A
\* failed fetch leaves memory undefined, and memory.length throws; so does
\* the call on a wrapper that was never created.
LoadFetched(i, fetched) ==
  /\ i \in DOMAIN calls
  /\ calls[i].op = "load" /\ calls[i].pc = "fetch"
  /\ LET b == calls[i].bank
     IN IF ~fetched \/ ~wrapper
          THEN /\ calls' = Finish(i, "fail")
               /\ UNCHANGED <<bankConfigs, engineBanks, loadCalls>>
          ELSE \E errno \in LoadBankMemory(b) :
                 /\ loadCalls' = [loadCalls EXCEPT ![b] = @ + 1]
                 /\ CASE errno = "alreadyLoaded" ->
                           /\ calls' = Finish(i, "ok")
                           /\ UNCHANGED <<bankConfigs, engineBanks>>
                      [] errno = "error" ->
                           /\ calls' = Finish(i, "fail")
                           /\ UNCHANGED <<bankConfigs, engineBanks>>
                      [] errno = "ok" ->
                           /\ calls' = [calls EXCEPT ![i].pc = "poll"]
                           /\ bankConfigs' =
                                [bankConfigs EXCEPT
                                   ![b] = RegisteredRecord(@)]
                           /\ engineBanks' =
                                [engineBanks EXCEPT ![b] = "loading"]
  /\ UNCHANGED <<sysVars, hostVars, tickVars, regVars, waits, wrapperBanks>>

\* FMODWrapper.awaitBankLoadingState: resolves once the engine reports the
\* state waited for
AwaitBankLoadingState(b, state) == engineBanks[b] = state

\* FMODWrapper.loadBankSampleData and unloadBankSampleData: the engine
\* receives one sample-data request for the bank's handle
LoadBankSampleData(b, n) == n + 1

\* the banks the sample-data handlers are asked for: the registered ones and
\* a name no bank is registered under
UnknownBank == "Z"
BankArgs == Banks \cup {UnknownBank}

\* FMODManager.loadBankSampleData: nothing happens for a bank that is
\* unknown or not loaded
loadBankSampleData(b) ==
  /\ IF b \in Banks /\ bankConfigs[b].loaded
       THEN /\ sampleCalls < MaxSampleCalls
            /\ sampleCalls' = LoadBankSampleData(b, sampleCalls)
       ELSE UNCHANGED sampleCalls
  /\ UNCHANGED <<sysVars, suspendVars, preInit, tickVars, regVars, waits, bankVars, parameterCalls,
                 listenerVars, errorVars, releasedTwice>>

\* FMODManager.unloadBankSampleData: the same guard
unloadBankSampleData(b) ==
  /\ IF b \in Banks /\ bankConfigs[b].loaded
       THEN /\ sampleCalls < MaxSampleCalls
            /\ sampleCalls' = LoadBankSampleData(b, sampleCalls)
       ELSE UNCHANGED sampleCalls
  /\ UNCHANGED <<sysVars, suspendVars, preInit, tickVars, regVars, waits, bankVars, parameterCalls,
                 listenerVars, errorVars, releasedTwice>>

\* FMODManager.loadBank after awaitBankLoadingState: the record is marked
\* loaded and, if asked for, the sample data is requested in the same turn
LoadPolled(i) ==
  /\ i \in DOMAIN calls
  /\ calls[i].op = "load" /\ calls[i].pc = "poll"
  /\ LET b == calls[i].bank
     IN /\ AwaitBankLoadingState(b, "loaded")
        /\ bankConfigs' = [bankConfigs EXCEPT ![b].loaded = TRUE]
        /\ wrapperBanks' = wrapperBanks \cup {b}
        /\ calls' = IF calls[i].sample
                      THEN [calls EXCEPT ![i].pc = "sample"]
                      ELSE Finish(i, "ok")
        /\ sampleCalls' = IF calls[i].sample
                            THEN LoadBankSampleData(b, sampleCalls)
                            ELSE sampleCalls
  /\ UNCHANGED <<sysVars, suspendVars, preInit, tickVars, regVars, waits, engineBanks, loadCalls,
                 parameterCalls, listenerVars, errorVars, releasedTwice>>

\* FMODManager.loadBank after loadBankSampleData, whose failures are logged
\* and not rethrown
LoadSampled(i) ==
  /\ i \in DOMAIN calls
  /\ calls[i].op = "load" /\ calls[i].pc = "sample"
  /\ calls' = Finish(i, "ok")
  /\ UNCHANGED <<sysVars, hostVars, tickVars, regVars, waits, bankConfigs, wrapperBanks,
                 engineBanks, loadCalls>>

\* unloadBank, were it to clear the loaded flag before it asks the engine
unloadBankEager(b) ==
  /\ Len(calls) < MaxCalls
  /\ LET call == [op |-> "unload", bank |-> b, sample |-> FALSE,
                  peers |-> {}, pc |-> "done", result |-> "ok"]
         cleared == [bankConfigs EXCEPT ![b].loaded = FALSE]
     IN IF ~bankConfigs[b].loaded
          THEN /\ calls' = Append(calls, call)
               /\ UNCHANGED <<engineBanks, bankConfigs>>
          ELSE \E ok \in BOOLEAN :
                 IF ok
                   THEN /\ calls' = Append(calls,
                              [call EXCEPT !.pc = "poll",
                                           !.result = "pending"])
                        /\ engineBanks' =
                             [engineBanks EXCEPT ![b] = "unloading"]
                        /\ bankConfigs' = cleared
                   ELSE /\ calls' = Append(calls,
                              [call EXCEPT !.result = "fail"])
                        /\ UNCHANGED engineBanks
                        /\ bankConfigs' = cleared
  /\ UNCHANGED <<sysVars, hostVars, tickVars, regVars, waits, wrapperBanks, loadCalls>>

\* FMODManager.unloadBank up to its await: a bank that is not loaded returns
\* at once; a refused unload request rejects
unloadBank(b) ==
  /\ Len(calls) < MaxCalls
  /\ LET call == [op |-> "unload", bank |-> b, sample |-> FALSE,
                  peers |-> {}, pc |-> "done", result |-> "ok"]
     IN IF ~bankConfigs[b].loaded
          THEN /\ calls' = Append(calls, call)
               /\ UNCHANGED engineBanks
          ELSE \E ok \in BOOLEAN :
                 IF ok
                   THEN /\ calls' = Append(calls,
                              [call EXCEPT !.pc = "poll",
                                           !.result = "pending"])
                        /\ engineBanks' =
                             [engineBanks EXCEPT ![b] = "unloading"]
                   ELSE /\ calls' = Append(calls,
                              [call EXCEPT !.result = "fail"])
                        /\ UNCHANGED engineBanks
  /\ UNCHANGED <<sysVars, hostVars, tickVars, regVars, waits, bankConfigs, wrapperBanks,
                 loadCalls>>

\* the description cache, were an unload to leave it alone
ClearDescriptionsKeep(cache) == cache

\* this.wrapper.eventDescriptions.clear()
ClearDescriptions(cache) == {}

\* FMODManager.unloadBank after awaitBankLoadingState
UnloadPolled(i) ==
  /\ i \in DOMAIN calls
  /\ calls[i].op = "unload" /\ calls[i].pc = "poll"
  /\ LET b == calls[i].bank
     IN /\ AwaitBankLoadingState(b, "unloaded")
        /\ bankConfigs' = [bankConfigs EXCEPT ![b].loaded = FALSE]
        /\ wrapperBanks' = wrapperBanks \ {b}
        /\ eventDescriptions' = ClearDescriptions(eventDescriptions)
        /\ calls' = Finish(i, "ok")
  /\ UNCHANGED <<sysVars, hostVars, tickVars, instances, tagIndex, nextInstanceId, engine, waits,
                 engineBanks, loadCalls>>

\* the engine finishes loading, or unloading, a bank
EngineBankLoaded(b) ==
  /\ engineBanks[b] = "loading"
  /\ engineBanks' = [engineBanks EXCEPT ![b] = "loaded"]
  /\ UNCHANGED <<sysVars, hostVars, tickVars, regVars, waits, bankConfigs, wrapperBanks, calls,
                 loadCalls>>

EngineBankUnloaded(b) ==
  /\ engineBanks[b] = "unloading"
  /\ engineBanks' = [engineBanks EXCEPT ![b] = "unloaded"]
  /\ UNCHANGED <<sysVars, hostVars, tickVars, regVars, waits, bankConfigs, wrapperBanks, calls,
                 loadCalls>>

BankNext ==
  \/ OnRuntimeInitialized
  \/ \E name \in Names : startOneTimeEvent(name)
  \/ \E b \in Banks : loadBank(b, SampleDataOf(b))
  \/ \E i \in 1..MaxCalls, fetched \in BOOLEAN : LoadFetched(i, fetched)
  \/ \E i \in 1..MaxCalls : LoadPolled(i)
  \/ \E i \in 1..MaxCalls : LoadSampled(i)
  \/ \E b \in BankArgs : loadBankSampleData(b)
  \/ \E b \in BankArgs : unloadBankSampleData(b)
  \/ \E b \in Banks : unloadBank(b)
  \/ \E i \in 1..MaxCalls : UnloadPolled(i)
  \/ \E b \in Banks : EngineBankLoaded(b)
  \/ \E b \in Banks : EngineBankUnloaded(b)

BankSpec == Init /\ [][BankNext]_vars

\* PreInit, the engine's start-up callbacks and the loads they start, next
\* to loads the host asks for.
PreInitNext ==
  \/ PreInit
  \/ PreRun
  \/ preInit.called /\ OnRuntimeInitialized
  \/ PreloadSettled
  \/ \E b \in Banks : loadBank(b, SampleDataOf(b))
  \/ \E i \in 1..MaxCalls, fetched \in BOOLEAN : LoadFetched(i, fetched)
  \/ \E i \in 1..MaxCalls : LoadPolled(i)
  \/ \E i \in 1..MaxCalls : LoadSampled(i)
  \/ \E b \in Banks : EngineBankLoaded(b)

PreInitSpec == Init /\ [][PreInitNext]_vars

\* Every fetch ends, the engine finishes the loads it accepted, and every
\* continuation that can run does run.
PreInitLiveSpec ==
  /\ PreInitSpec
  /\ WF_vars(\E i \in 1..MaxCalls, fetched \in BOOLEAN :
               LoadFetched(i, fetched))
  /\ WF_vars(\E i \in 1..MaxCalls : LoadPolled(i))
  /\ WF_vars(\E i \in 1..MaxCalls : LoadSampled(i))
  /\ WF_vars(\E b \in Banks : EngineBankLoaded(b))
  /\ WF_vars(PreloadSettled)

\* ================================================================ claims
\* What a selector means (spec 4.1, Match): instance id is live, carries
\* the event name asked for, and is picked by tagOrId.
Live(id) == id \in Tracked /\ ~instances[id].released
NameMatches(name, id) == name = NoName \/ instances[id].name = name
Selects(name, tag, id) ==
  /\ Live(id)
  /\ NameMatches(name, id)
  /\ CASE tag.t = "num" -> id = tag.v
       [] tag.t = "str" /\ Trim(tag.v) # <<>> ->
            Trim(tag.v) \in instances[id].tags
       [] OTHER -> TRUE

TagA == <<"a">>
TagB == <<"b">>

\* C1: the tag index and the identity map are bidirectionally consistent:
\* every id in a tag bucket is tracked and carries that tag, and every tag
\* of a tracked instance has a bucket that contains the instance's id.
C1_TagIndexConsistent ==
  /\ \A t \in DOMAIN tagIndex : \A id \in tagIndex[t] :
        id \in Tracked /\ t \in instances[id].tags
  /\ \A id \in Tracked : \A t \in instances[id].tags :
        t \in DOMAIN tagIndex /\ id \in tagIndex[t]

\* two tracked instances share a bucket, one of them released, and one of
\* them has lost a tag it was created with
C1_Witness ==
  /\ Cardinality(Tracked) = 2
  /\ TagA \in DOMAIN tagIndex /\ Cardinality(tagIndex[TagA]) = 2
  /\ TagB \in DOMAIN tagIndex /\ Cardinality(tagIndex[TagB]) = 1
  /\ \E id \in Tracked : instances[id].released

\* C2: load calls for one bank that were all issued before the first of
\* them completed cause a single engine load call for that bank.
C2_OneEngineLoad ==
  \A b \in Banks :
    LET loads == {i \in DOMAIN calls :
                    calls[i].op = "load" /\ calls[i].bank = b}
    IN (\A i \in loads, j \in loads : i < j => i \in calls[j].peers)
         => loadCalls[b] <= 1

\* C3: a load call issued while another load of the same bank was in
\* flight ends with the same outcome as that load.
C3_SameOutcome ==
  \A j \in DOMAIN calls : \A i \in calls[j].peers :
    (calls[i].pc = "done" /\ calls[j].pc = "done")
      => calls[i].result = calls[j].result

\* C4: a reconcile pass removes every instance whose playback-state query
\* fails and every stopped instance with autoRelease set, and keeps every
\* unreleased instance that is playing or is stopped without autoRelease.
C4_ReconcileRemoves ==
  [][\A stale \in SUBSET Tracked :
       update(stale) =>
         \A id \in Tracked :
           /\ (id \in stale
                 \/ (engine[id].state = "stopped" /\ instances[id].autoRelease))
                => id \notin DOMAIN instances'
           /\ (/\ ~instances[id].released
               /\ id \notin stale
               /\ \/ engine[id].state = "playing"
                  \/ (engine[id].state = "stopped"
                        /\ ~instances[id].autoRelease))
                => (id \in DOMAIN instances'
                      /\ instances'[id] = instances[id])]_vars

\* a pass is about to run over a stopped auto-release instance, a stopped
\* instance without autoRelease and nothing released
C4_Witness ==
  /\ wrapper /\ loaded
  /\ \E i \in Tracked, k \in Tracked :
       /\ engine[i].state = "stopped" /\ instances[i].autoRelease
       /\ engine[k].state = "stopped" /\ ~instances[k].autoRelease
       /\ ~instances[i].released /\ ~instances[k].released

\* C5: startEvent creates no instance when a live instance matches its
\* selector.
C5_LazyInstantiation ==
  [][\A name \in Names, tags \in TagArgs, d \in BOOLEAN :
       (startEvent(name, tags, d)
          /\ \E id \in Tracked : Selects(name, tags, id))
         => nextInstanceId' = nextInstanceId]_vars

\* C6: the update tick that follows the engine stopping an instance started
\* with destroyWhenStopped leaves the instance out of the identity map and
\* out of every tag bucket, and drops the buckets it was alone in.
C6_StoppedAutoReleaseReaped ==
  [][\A stale \in SUBSET Tracked :
       update(stale) =>
         \A id \in Tracked :
           (instances[id].autoRelease /\ engine[id].state = "stopped")
             => /\ id \notin DOMAIN instances'
                /\ \A t \in DOMAIN tagIndex' : id \notin tagIndex'[t]
                /\ \A t \in instances[id].tags :
                     tagIndex[t] = {id} => t \notin DOMAIN tagIndex']_vars

\* an instance started with two tags and destroyWhenStopped has stopped:
\* it is alone in one bucket and shares the other
C6_Witness ==
  /\ wrapper /\ loaded
  /\ \E id \in Tracked :
       /\ instances[id].autoRelease /\ ~instances[id].released
       /\ engine[id].state = "stopped"
       /\ instances[id].tags = {TagA, TagB}
       /\ tagIndex[TagB] = {id}
       /\ Cardinality(tagIndex[TagA]) = 2

\* C7: a numeric selector yields at most one result: the instance with that
\* id, and only if it is tracked, not released and of the event name asked
\* for.
C7_MatchById ==
  \A name \in NameFilters : \A n \in 1..(MaxId + 1) :
    LET r == GetMatchingInstances(name, Num(n))
    IN /\ Cardinality(r) <= 1
       /\ r \subseteq {n}
       /\ n \in r <=> (Live(n) /\ NameMatches(name, n))

\* a live and a released instance are tracked: the id of the live one
\* selects it unless another event name is asked for, the id of the
\* released one selects nothing
C7_Witness ==
  \E i \in Tracked, k \in Tracked :
    /\ ~instances[i].released /\ instances[k].released
    /\ GetMatchingInstances("e1", Num(i)) = {i}
    /\ GetMatchingInstances("e2", Num(i)) = {}
    /\ GetMatchingInstances(NoName, Num(k)) = {}

\* C8: a non-empty string selector yields exactly the tracked, unreleased
\* instances that carry the tag and are of the event name asked for.
C8_MatchByTag ==
  \A name \in NameFilters : \A s \in TagStrings :
    Trim(s) # <<>> =>
      GetMatchingInstances(name, Str(s)) =
        {id \in Tracked :
           /\ ~instances[id].released
           /\ Trim(s) \in instances[id].tags
           /\ NameMatches(name, id)}

\* the tag, passed with surrounding whitespace, selects the live instance
\* that carries it and leaves out a released instance that carries it too
C8_Witness ==
  \E i \in Tracked, k \in Tracked :
    /\ Live(i) /\ instances[k].released
    /\ TagA \in instances[i].tags /\ TagA \in instances[k].tags
    /\ GetMatchingInstances("e1", Str(<<" ", "a", " ">>)) = {i}

\* C9: an absent or empty selector yields exactly the tracked, unreleased
\* instances of the event name asked for.
C9_MatchAll ==
  \A name \in NameFilters : \A tag \in {Null, Str(<<>>)} :
    GetMatchingInstances(name, tag) =
      {id \in Tracked : ~instances[id].released /\ NameMatches(name, id)}

\* a live and a released instance are tracked: match-all returns the live
\* one, and nothing under another event name
C9_Witness ==
  \E i \in Tracked, k \in Tracked :
    /\ ~instances[i].released /\ instances[k].released
    /\ GetMatchingInstances(NoName, Null) = {i}
    /\ GetMatchingInstances("e2", Str(<<>>)) = {}

\* C10: waitForEventStop with a selector no live instance matches returns a
\* promise that is already fulfilled.
C10_EmptyWaitComplete ==
  [][\A name \in NameFilters, tag \in OpSelectors :
       (waitForEventStop(name, tag)
          /\ ~\E id \in Tracked : Selects(name, tag, id))
         => waits'[Len(waits')].complete]_vars

\* a fulfilled promise exists although instances are tracked and no
\* stopped-callback was ever registered
C10_Witness ==
  /\ Tracked # {}
  /\ \E w \in DOMAIN waits : waits[w].complete /\ waits[w].pending = {}
  /\ \A id \in DOMAIN engine : engine[id].cb = 0

\* the place of a step in the order the tick is to take
Rank(step) ==
  CASE step = "callback" -> 1
    [] step = "reconcile" -> 2
    [] step = "engineUpdate" -> 3

\* C11: a wait made over one or more matched instances is fulfilled only
\* once every matched instance has reported the engine's stopped callback,
\* and once every one of them has, all its inner promises are resolved (the
\* wait is fulfilled or its fulfilment is due).
C11_WaitUntilAllStopped ==
  \A w \in DOMAIN waits :
    waits[w].matched # {} =>
      /\ waits[w].complete => waits[w].matched \subseteq waits[w].stopped
      /\ waits[w].matched \subseteq waits[w].stopped => waits[w].pending = {}

\* C12: an update tick on a ready system calls every queued function, then
\* reconciles the registry once, then updates the engine once, in that
\* order: no step of the tick comes before a step of lower rank, and the
\* reconciliation sees what the functions of the tick did (the instances
\* one of them released are gone at the end of the tick).
C12_TickOrder ==
  [][\A stale \in SUBSET Tracked :
       (wrapper /\ loaded /\ update(stale)) =>
         /\ \A i \in DOMAIN tickLog', j \in DOMAIN tickLog' :
               i < j => Rank(tickLog'[i]) <= Rank(tickLog'[j])
         /\ Len(SelectSeq(tickLog', LAMBDA x : x = "callback"))
               = Len(nextTickArray)
         /\ Len(SelectSeq(tickLog', LAMBDA x : x = "reconcile")) = 1
         /\ Len(SelectSeq(tickLog', LAMBDA x : x = "engineUpdate")) = 1
         /\ (\E i \in DOMAIN nextTickArray : nextTickArray[i] = "release")
               => instances' = <<>>]_vars

\* a tick is about to run with a releasing function queued and a playing,
\* unreleased instance tracked
C12_Witness ==
  /\ wrapper /\ loaded
  /\ \E i \in DOMAIN nextTickArray : nextTickArray[i] = "release"
  /\ \E id \in Tracked :
       ~instances[id].released /\ engine[id].state = "playing"

\* C13: when a queued function throws, the tick still calls every other
\* queued function (also those queued behind it), empties the queue,
\* reconciles the registry and updates the engine.
C13_CallbackFailureIsolated ==
  [][\A stale \in SUBSET Tracked :
       (wrapper /\ loaded /\ update(stale)
          /\ \E i \in DOMAIN nextTickArray : nextTickArray[i] = "throw")
         => /\ Len(SelectSeq(tickLog', LAMBDA x : x = "callback"))
                 = Len(nextTickArray)
            /\ \E i \in DOMAIN tickLog' : tickLog'[i] = "reconcile"
            /\ \E i \in DOMAIN tickLog' : tickLog'[i] = "engineUpdate"
            /\ nextTickArray' = <<>>
            /\ (\E i \in DOMAIN nextTickArray : nextTickArray[i] = "release")
                  => instances' = <<>>
            /\ \A id \in Tracked :
                  instances[id].released => id \notin DOMAIN instances']_vars

\* a tick is about to run over a throwing function followed by a releasing
\* one, with a playing, unreleased instance tracked
C13_Witness ==
  /\ wrapper /\ loaded
  /\ nextTickArray = <<"throw", "release">>
  /\ \E id \in Tracked :
       ~instances[id].released /\ engine[id].state = "playing"

\* call i is a call of operation op that completes in this step with result
Completes(i, op, result) ==
  /\ i \in DOMAIN calls' /\ calls'[i].op = op
  /\ calls'[i].pc = "done" /\ calls'[i].result = result
  /\ (i \in DOMAIN calls => calls[i].pc # "done")

C15_AlreadyLoadedIsLoaded ==
  [][\A i \in DOMAIN calls :
       (calls[i].pc = "fetch" /\ Completes(i, "load", "ok"))
         => bankConfigs'[calls[i].bank].loaded]_vars

\* C16: when a load call fails, the bank record is not loaded at the end of
\* the call and the call's result is the failure.
C16_FailedLoadNotLoaded ==
  [][\A i \in DOMAIN calls :
       Completes(i, "load", "fail")
         => ~bankConfigs'[calls[i].bank].loaded]_vars

\* C17: a load call on a loaded bank returns success at once: it fetches
\* nothing, makes no engine load call and leaves the bank record, the
\* wrapper's bank table and the engine's banks as they were.
C17_LoadLoadedIdempotent ==
  [][\A b \in Banks, sd \in BOOLEAN :
       (loadBank(b, sd) /\ bankConfigs[b].loaded)
         => /\ Completes(Len(calls'), "load", "ok")
            /\ UNCHANGED <<bankConfigs, wrapperBanks, engineBanks,
                            loadCalls>>]_vars

\* bank A was loaded by one engine load call, and a second load call,
\* issued after the first had completed, has returned success
C17_Witness ==
  /\ bankConfigs["A"].loaded /\ loadCalls["A"] = 1
  /\ \E i \in DOMAIN calls, j \in DOMAIN calls :
       /\ i < j
       /\ calls[i].op = "load" /\ calls[j].op = "load"
       /\ calls[i].bank = "A" /\ calls[j].bank = "A"
       /\ calls[j].peers = {}
       /\ calls[i].result = "ok" /\ calls[j].result = "ok"

\* C18: when an unload of a loaded bank completes successfully, the bank
\* record is not loaded and holds no engine handle.
C18_UnloadDropsHandle ==
  [][\A i \in DOMAIN calls :
       (calls[i].pc = "poll" /\ Completes(i, "unload", "ok"))
         => /\ ~bankConfigs'[calls[i].bank].loaded
            /\ ~bankConfigs'[calls[i].bank].bankHandle]_vars

\* C19: when the engine refuses the unload request, the unload call fails
\* and the bank record (loaded, with its handle), the wrapper's bank table
\* and the event-description cache are as they were.
C19_RefusedUnloadKeepsBank ==
  [][\A b \in Banks :
       (unloadBank(b) /\ Completes(Len(calls'), "unload", "fail"))
         => /\ bankConfigs'[b].loaded /\ bankConfigs'[b].bankHandle
            /\ UNCHANGED <<bankConfigs, wrapperBanks, eventDescriptions,
                            engineBanks>>]_vars

\* an unload of bank A has failed: the bank is still loaded, in the
\* wrapper's table and with its handle, and the cache still holds a
\* description
C19_Witness ==
  /\ \E i \in DOMAIN calls :
       /\ calls[i].op = "unload" /\ calls[i].bank = "A"
       /\ calls[i].pc = "done" /\ calls[i].result = "fail"
  /\ bankConfigs["A"].loaded /\ bankConfigs["A"].bankHandle
  /\ "A" \in wrapperBanks
  /\ eventDescriptions # {}

\* C20: a bank record becomes loaded only in a step in which the engine
\* reports the bank's loading state as loaded; while the engine is still
\* loading a bank whose load it accepted, the record is not loaded.
C20_LoadedAfterEngineLoaded ==
  [][\A b \in Banks :
       (~bankConfigs[b].loaded /\ bankConfigs'[b].loaded)
         => engineBanks[b] = "loaded"]_vars

\* the engine accepted the load of bank A and is still loading it: the
\* record holds the handle and is not marked loaded
C20_Witness ==
  /\ engineBanks["A"] = "loading"
  /\ bankConfigs["A"].bankHandle /\ ~bankConfigs["A"].loaded
  /\ \E i \in DOMAIN calls :
       calls[i].op = "load" /\ calls[i].bank = "A" /\ calls[i].pc = "poll"

\* C30: after every completed reconcile pass the identity map holds no
\* instance whose released flag is set, and every instance that carried the
\* flag before the pass is gone from the map and from all tag buckets.
C30_NoReleasedAfterReconcile ==
  [][\A stale \in SUBSET Tracked :
       update(stale)
         => /\ \A id \in DOMAIN instances' : ~instances'[id].released
            /\ \A id \in Tracked :
                  instances[id].released
                    => /\ id \notin DOMAIN instances'
                       /\ \A t \in DOMAIN tagIndex' :
                            id \notin tagIndex'[t]]_vars

\* a ready system is about to tick over a released instance that still
\* sits in a tag bucket, next to a live one
C30_Witness ==
  /\ wrapper /\ loaded /\ initialized
  /\ \E id \in Tracked :
       /\ instances[id].released
       /\ \E t \in DOMAIN tagIndex : id \in tagIndex[t]
  /\ \E id \in Tracked : ~instances[id].released

\* the step leaves the registry, the cache and the engine's handles as the
\* outcome o of a creation call says
Leaves(o) ==
  /\ instances' = o.instances
  /\ tagIndex' = o.tagIndex
  /\ engine' = o.engine
  /\ nextInstanceId' = o.nextInstanceId
  /\ eventDescriptions' = o.eventDescriptions

\* C24: instance ids are strictly increasing in creation order and never
\* reused.  Every creation, also one whose start the engine then refuses,
\* takes the current value of the id counter; the counter moves past that
\* value in the same call and never moves back, whatever is released or
\* reconciled, so every id ever handed out lies below the counter and a
\* new id lies above all earlier ones.
C24_IdsNeverReused ==
  [][/\ nextInstanceId' >= nextInstanceId
     /\ \A id \in DOMAIN instances' \cup DOMAIN engine' :
          id < nextInstanceId'
     /\ \A id \in DOMAIN instances' \ DOMAIN instances :
          id = nextInstanceId
     /\ \A name \in Names, tags \in CreateTags, d \in BOOLEAN :
          \A ans \in EngineAnswers(name) :
            LET o == Started(name, tags, d, ans)
            IN (Leaves(o) /\ o.created # {} /\ startEvent(name, tags, d))
                 => /\ o.created = {nextInstanceId}
                    /\ nextInstanceId' = nextInstanceId + 1]_vars

\* the first id was handed out and its instance is gone, and the instance
\* created after it carries the second id
C24_Witness ==
  /\ DOMAIN instances = {2}
  /\ nextInstanceId = 3

\* C25: stopEvent with release = true marks every matched instance released
\* in the same call, whether the engine's stop call succeeded or not and
\* whether playback has ended or not; an instance marked released is
\* returned by no selector (by id, by tag, match-all), also before the next
\* reconcile pass has removed it.
C25_StopReleaseMarksAll ==
  [][/\ \A tag \in BulkSelectors, f \in BOOLEAN :
          stopEvent(NoName, tag, f, TRUE)
            => \A id \in GetMatchingInstances(NoName, tag) :
                 /\ id \in DOMAIN instances' /\ instances'[id].released
                 /\ \A n2 \in NameFilters, s2 \in Selectors :
                      id \notin GetMatchingInstances(n2, s2)'
     /\ \A id \in Tracked :
          instances[id].released
            => \A n2 \in NameFilters, s2 \in Selectors :
                 id \notin GetMatchingInstances(n2, s2)]_vars

\* two tracked instances are both marked released; the engine halted one of
\* them and the other is still playing
C25_Witness ==
  \E a \in Tracked, b \in Tracked :
    /\ instances[a].released /\ instances[b].released
    /\ engine[a].state = "playing"
    /\ engine[b].state = "stopped"

\* C26: when the engine refuses to start the instance startEvent has just
\* created, startEvent releases that handle on the engine, removes the
\* instance from the identity map and from every tag bucket, and returns
\* no id.
C26_FailedStartCleansUp ==
  [][\A name \in Names, tags \in CreateTags, d \in BOOLEAN :
       LET o == Started(name, tags, d, "noStart")
       IN ("noStart" \in EngineAnswers(name)
             /\ Leaves(o) /\ startEvent(name, tags, d))
            => /\ o.ret = Null
               /\ o.released = {nextInstanceId}
               /\ nextInstanceId \notin DOMAIN instances'
               /\ \A t \in DOMAIN tagIndex' :
                    nextInstanceId \notin tagIndex'[t]
               /\ nextInstanceId \notin DOMAIN engine']_vars

\* the first id was consumed and nothing is tracked although no update tick
\* has run yet: the start of the first instance was refused
C26_Witness ==
  /\ nextInstanceId = 2
  /\ instances = <<>> /\ tagIndex = <<>> /\ engine = <<>>
  /\ tickLog = <<>>

\* C27 as stated: a failed instantiateEvent returns no id, consumes none
\* and leaves identity map, tag index and description cache unchanged.
C27_FailedCreateChangesNothing ==
  [][\A name \in Names, tags \in CreateTags :
       \A ans \in EngineAnswers(name) \ {"noStart"} :
         LET o == Instantiated(name, tags, ans)
         IN (Leaves(o)
               /\ ~(DescResolved(name, GetOk(ans)) /\ CreateOk(ans))
               /\ instantiateEvent(name, tags))
              => /\ o.ret = Null
                 /\ UNCHANGED <<instances, tagIndex, nextInstanceId,
                                eventDescriptions>>]_vars

\* C27, amended: a failed instantiateEvent returns no id, consumes none and
\* leaves the identity map and the tag index unchanged; the description
\* cache is unchanged when the description could not be resolved, and gains
\* at most the description of the requested event when the lookup resolved
\* it and the engine then refused the instance.
C27_FailedCreateKeepsRegistry ==
  [][\A name \in Names, tags \in CreateTags :
       \A ans \in EngineAnswers(name) \ {"noStart"} :
         LET o == Instantiated(name, tags, ans)
         IN (Leaves(o)
               /\ ~(DescResolved(name, GetOk(ans)) /\ CreateOk(ans))
               /\ instantiateEvent(name, tags))
              => /\ o.ret = Null
                 /\ UNCHANGED <<instances, tagIndex, nextInstanceId>>
                 /\ ~DescResolved(name, GetOk(ans))
                      => UNCHANGED eventDescriptions
                 /\ eventDescriptions \subseteq eventDescriptions'
                 /\ eventDescriptions' \subseteq
                      eventDescriptions \cup {name}]_vars

\* the description of e1 is cached although no id was ever handed out: the
\* lookup resolved it and the engine refused the instance
C27_Witness ==
  /\ nextInstanceId = 1
  /\ instances = <<>>
  /\ "e1" \in eventDescriptions

\* C28: in a bulk operation over a selector match an engine failure on one
\* matched instance does not end the operation.  When the engine fails the
\* parameter call on the handles in failed, the call was made on every
\* matched instance and every other matched instance has the value set;
\* when it fails the stop call on the handles in failed,
\* every other matched playing instance is halted by an immediate stop and
\* every matched instance is marked released if release was asked for.
C28_BulkFailureIsolated ==
  [][/\ \A tag \in BulkSelectors, value \in ParamValues :
          \A failed \in SUBSET GetMatchingInstances(NoName, tag) :
            (engine' = ParameterSet(NoName, tag, value, failed).engine
               /\ setEventParameter(NoName, tag, value))
              => /\ parameterCalls' = GetMatchingInstances(NoName, tag)
                 /\ \A id \in GetMatchingInstances(NoName, tag) \ failed :
                      engine'[id].param = value
     /\ \A tag \in BulkSelectors, f \in BOOLEAN, r \in BOOLEAN :
          \A failed \in SUBSET GetMatchingInstances(NoName, tag) :
            LET o == Stopped(NoName, tag, f, r, failed)
            IN (engine' = o.engine /\ instances' = o.instances
                  /\ waits' = o.waits
                  /\ stopEvent(NoName, tag, f, r))
                 => \A id \in GetMatchingInstances(NoName, tag) \ failed :
                      /\ (~f /\ engine[id].state = "playing")
                           => engine'[id].state = "stopped"
                      /\ r => instances'[id].released]_vars

\* the parameter call failed on the first of two matched instances and
\* reached the second: the second carries a value the first never got
C28_Witness ==
  /\ DOMAIN instances = {1, 2}
  /\ ~instances[1].released /\ ~instances[2].released
  /\ engine[1].param = 0
  /\ engine[2].param = 1

\* the state of a registered bank in the spec's terms: Unloading while an
\* unload call is polling, else Loaded if the record says so, else Loading
\* while a load call is in flight
BankState(b) ==
  IF \E i \in DOMAIN calls :
       calls[i].op = "unload" /\ calls[i].bank = b /\ calls[i].pc = "poll"
    THEN "Unloading"
  ELSE IF bankConfigs[b].loaded THEN "Loaded"
  ELSE IF InFlightLoads(b) # {} THEN "Loading"
  ELSE "NotLoaded"

\* C21: loadBankSampleData and unloadBankSampleData on a bank that is
\* unknown or not in state Loaded make no engine call and change no bank
\* state.
C21_SampleDataNeedsLoaded ==
  [][\A b \in BankArgs :
       ((loadBankSampleData(b) \/ unloadBankSampleData(b))
          /\ (b \notin Banks \/ BankState(b) # "Loaded"))
         => UNCHANGED <<sampleCalls, bankVars>>]_vars

\* the listener index lies in [0, n)
InRange(id, n) == id.t = "num" /\ 0 <= id.v /\ id.v < n

\* C22: setListener3DAttributes makes no engine call when the index is
\* outside [0, n), n being the argument of the last setNbListeners call (1
\* if there was none), or when one of the numbers passed is not finite;
\* otherwise, on a ready system, the call reaches the engine with the same
\* arguments.
C22_ListenerAttributesValidated ==
  [][\A id \in ListenerIds, a \in ListenerAttributes :
       setListener3DAttributes(id, a)
         => IF \/ ~InRange(id, lastNb)
               \/ \E i \in DOMAIN a.values : ~IsFinite(a.values[i])
               \/ \E i \in DOMAIN a.attenuation :
                    ~IsFinite(a.attenuation[i])
              THEN UNCHANGED listenerCalls
              ELSE (wrapper /\ loaded)
                     => listenerCalls' =
                          Append(listenerCalls,
                                 [op |-> "setListenerAttributes",
                                  id |-> id, arg |-> a])]_vars

\* C23: setListenerWeight with an index outside [0, n) makes no engine
\* call.
C23_ListenerWeightValidated ==
  [][\A id \in ListenerIds, weight \in ListenerWeights :
       (setListenerWeight(id, weight) /\ ~InRange(id, lastNb))
         => UNCHANGED listenerCalls]_vars

\* the tracked errors that are at most one reset interval old
InWindow ==
  Cardinality({i \in DOMAIN errorWindow :
                 errorWindow[i] >= now - ErrorResetInterval})

\* C29: the stability warning is emitted only when more than the threshold
\* of tracked errors lie inside one window of the reset interval: errors
\* older than the window do not count toward the threshold.
C29_WarningOnlyWithinWindow ==
  [][stabilityWarnings' > stabilityWarnings
       => InWindow' > ErrorThreshold]_vars

\* C31: the tag index holds no empty bucket and no bucket keyed by an empty
\* or whitespace-only tag: a bucket exists only while at least one tracked
\* instance carries that tag.
C31_NoEmptyBucket ==
  \A t \in DOMAIN tagIndex :
    /\ tagIndex[t] # {}
    /\ t # <<>> /\ Trim(t) # <<>>
    /\ \E id \in Tracked : t \in instances[id].tags

\* the first instance is gone, and the second, created with two tags, has
\* lost the tag whose bucket it was alone in
C31_Witness ==
  /\ 1 \notin Tracked /\ 2 \in Tracked
  /\ instances[2].tags = {TagB}
  /\ DOMAIN tagIndex = {TagB}

\* C32: every function registered with nextTick is called by a later update
\* tick on a ready system and is never discarded uncalled, a function
\* registered by a deferred function during the drain included: a tick
\* removes no function from the queue that it has not called.
C32_NoCallbackDiscarded ==
  [][\A stale \in SUBSET Tracked :
       (wrapper /\ loaded /\ update(stale))
         => Discarded(nextTickArray) = <<>>]_vars

\* the unload calls for bank b whose engine request was accepted and that
\* have not completed
InFlightUnloads(b) ==
  {i \in DOMAIN calls :
     calls[i].op = "unload" /\ calls[i].bank = b /\ calls[i].pc = "poll"}

\* C33: an Unload call issued for a bank while an earlier Unload of that
\* bank has not completed makes no second engine unload request and does
\* not fail: it neither waits on a request of its own nor is refused.
C33_OneEngineUnload ==
  [][\A b \in Banks :
       (InFlightUnloads(b) # {} /\ unloadBank(b))
         => LET c == calls'[Len(calls')]
            IN c.pc # "poll" /\ c.result # "fail"]_vars

\* C34: a Load call issued while an Unload of the same bank is in flight
\* does not report success for a bank that then ends up unloaded: when the
\* Unload completes, every Load of that bank that was issued after it and
\* has already succeeded finds the bank loaded.
C34_LoadDuringUnloadEndsLoaded ==
  [][\A i \in DOMAIN calls :
       (calls[i].op = "unload" /\ calls[i].pc = "poll" /\ UnloadPolled(i))
         => \A j \in DOMAIN calls :
              (/\ j > i
               /\ calls[j].op = "load" /\ calls[j].bank = calls[i].bank
               /\ calls[j].pc = "done" /\ calls[j].result = "ok")
                => bankConfigs'[calls[i].bank].loaded]_vars

\* C35: the engine's release is called at most once on every instance
\* handle, whatever the interleaving of stopEvent with release,
\* releaseAllEventInstances, failed starts and the auto-release branch of
\* the reconcile pass.
C35_ReleasedAtMostOnce == releasedTwice = {}

\* one handle was released by a release call and is still tracked, the
\* other was released and reaped
C35_Witness ==
  /\ nextInstanceId = MaxId + 1
  /\ \E id \in Tracked :
       /\ engine[id].released /\ instances[id].released
       /\ Tracked = {id}

\* C36: while the system is not ready (no wrapper yet, or runtime
\* initialisation not finished), update runs no deferred function, does no
\* reconciliation and no engine update, and leaves the queue, the registry
\* and the error counters as they are.
C36_NotReadyUpdateDoesNothing ==
  [][\A stale \in SUBSET Tracked :
       ((~wrapper \/ ~loaded) /\ update(stale))
         => /\ tickLog' = <<>>
            /\ UNCHANGED <<nextTickArray, regVars, errorVars>>]_vars

\* the wrapper exists, its initialisation did not finish, the queue is full
\* and no tick has taken a step: the update calls made here return at the
\* guard
C36_Witness ==
  /\ wrapper /\ ~loaded
  /\ Len(nextTickArray) = MaxQueue
  /\ tickLog = <<>>
  /\ ENABLED update({})

\* C37: getInstancesByTag returns only live instances: every id it returns
\* for a tag is also returned by getAllInstances, so it returns no id of a
\* released instance.
C37_ByTagOnlyLive ==
  \A t \in QueryTags : GetInstancesByTag(t) \subseteq GetAllInstances

\* C38: a setSuspended call whose time is equal to or older than the time
\* of an earlier call that was applied makes no engine call and leaves
\* lastSuspendTime as it is, so that only a call newer than every applied
\* call reaches the engine and lastSuspendTime never decreases.
C38_SuspendOnlyNewer ==
  [][\A suspended \in BOOLEAN, time \in SuspendTimes :
       (/\ \E i \in DOMAIN suspendLog :
              /\ time.t = "num" /\ suspendLog[i].time.t = "num"
              /\ time.v <= suspendLog[i].time.v
        /\ setSuspended(suspended, time))
         => UNCHANGED suspendVars]_vars

\* the preload banks the promise of PreInit waits for
BlockingPreload ==
  {PreloadOrder[k] : k \in {j \in 1..Len(PreloadOrder) :
                              ~NonBlockingOf(PreloadOrder[j])}}

\* C39: at the step at which the promise PreInit returned resolves,
\* the preRun callback has fired and every bank registered with preload and
\* without nonBlocking has finished loading: its record is marked loaded
\* and the engine holds it loaded.
C39_PreInitWaitsForBlockingBanks ==
  [][(~PreInitResolved /\ PreInitResolved')
       => /\ preInit'.preRun
          /\ \A b \in BlockingPreload :
               /\ bankConfigs'[b].loaded
               /\ engineBanks'[b] = "loaded"]_vars

\* C40: once the preRun callback has fired and the runtime-initialized
\* callback has run the callbacks PreInit queued, the promise PreInit
\* returned eventually settles, whatever the preload loads end with.
C40_PreInitSettles ==
  (preInit.preRun /\ preInit.callback = "waiting") ~> PreInitResolved

TypeOK ==
  /\ wrapper \in BOOLEAN /\ initialized \in BOOLEAN /\ loaded \in BOOLEAN
  /\ nextInstanceId \in 1..(MaxId + 1)
  /\ DOMAIN instances \subseteq Ids
  /\ eventDescriptions \subseteq Names
  /\ Len(nextTickArray) <= MaxQueue /\ Range(nextTickArray) \subseteq Fns \cup DeferFns
  /\ Len(calls) <= MaxCalls /\ Len(waits) <= MaxWaits
  /\ sampleCalls \in 0..(MaxSampleCalls + MaxCalls)
  /\ parameterCalls \subseteq Ids
  /\ numListeners \in ListenerCounts /\ lastNb \in ListenerCounts
  /\ Len(listenerCalls) <= MaxListenerCalls
  /\ errorCount \in 0..MaxErrors /\ Len(errorWindow) <= MaxErrors
  /\ lastErrorTime <= now /\ now <= MaxTime
  /\ stabilityWarnings \in 0..MaxErrors
  /\ releasedTwice \subseteq 1..(MaxId + 1)
  /\ lastSuspendTime \in SuspendTimes \cup {Num(0)}
  /\ Len(suspendLog) <= MaxSuspendCalls
  /\ preInit \in [called : BOOLEAN, preRun : BOOLEAN,
                  callback : {"none", "queued", "waiting", "resolved",
                              "rejected"},
                  calls : SUBSET (1..MaxCalls)]

====
